---- MODULE Spec2Model ----
(***************************************************************************)
(* GeometryCollection<T> of geo-types (src/geo-types/src/                  *)
(* geometry_collection.rs): a tuple struct around Vec<Geometry<T>> with    *)
(* constructors, len / is_empty, Index / IndexMut, derived PartialEq and   *)
(* three iterator helpers (owned, borrowed, mutably borrowed).             *)
(*                                                                         *)
(* Positions are 0-based as in the source; the TLA+ sequence that holds    *)
(* the Vec's buffer is 1-based, so position i is element i + 1.            *)
(***************************************************************************)
EXTENDS Integers, Sequences, FiniteSets

\* ---------------------------------------------------------------- bounds
MaxLen == 3
MaxReaders == 2

\* ------------------------------------------------------------ value domain
Kinds == {"Point", "LineString"}
Coords == {1, 2}

\* Geometry<T>: a tagged value, one case per shape kind.
Geometry == [kind : Kinds, c : Coords]

\* The item types IG with Into<Geometry<T>>: a bare shape, or a Geometry.
ItemTypes == Kinds \cup {"Geometry"}

Items(ig) == IF ig = "Geometry" THEN Geometry ELSE Coords

\* Option<..>, as the iterators' next returns it.
Some(x) == [tag |-> "Some", val |-> x]
None == [tag |-> "None"]
Panic == [tag |-> "Panic"]

RECURSIVE SeqsUpTo(_, _)
SeqsUpTo(S, n) ==
  IF n = 0 THEN {<<>>}
  ELSE LET shorter == SeqsUpTo(S, n - 1)
       IN shorter \cup {Append(s, x) : s \in {t \in shorter : Len(t) = n - 1}, x \in S}

Collections == SeqsUpTo(Geometry, MaxLen)

Positions == 0 .. (MaxLen + 1)

Readers == 1 .. MaxReaders

\* ------------------------------------------------------- pure operations

\* g.into(): a bare shape is wrapped in its Geometry case, a Geometry is itself.
into(ig, x) == IF ig = "Geometry" THEN x ELSE [kind |-> ig, c |-> x]

\* GeometryCollection(Vec::new())
new == <<>>

\* self.0.len()
len(v) == Len(v)

\* Faulty variant: the test inverted.
is_empty_inverted(v) == Len(v) # 0

\* self.0.is_empty()
is_empty(v) == Len(v) = 0

\* GeometryCollection(vec![x.into()])
from(ig, x) == <<into(ig, x)>>

\* iter.into_iter().map(|g| g.into()).collect(): each item is converted and
\* pushed in iteration order.
RECURSIVE collect(_, _, _)
collect(ig, it, acc) ==
  IF it = <<>> THEN acc
  ELSE collect(ig, Tail(it), Append(acc, into(ig, Head(it))))

\* Faulty variant: each converted item is put at the front.
RECURSIVE collect_front(_, _, _)
collect_front(ig, it, acc) ==
  IF it = <<>> THEN acc
  ELSE collect_front(ig, Tail(it), <<into(ig, Head(it))>> \o acc)

from_iter_reversed(ig, S) == collect_front(ig, S, <<>>)

from_iter(ig, S) == collect(ig, S, <<>>)

\* Faulty variant: an index past the end is clamped to the last position.
index_clamped(v, i) ==
  IF Len(v) = 0 THEN Panic ELSE Some(IF i < Len(v) THEN i ELSE Len(v) - 1)

\* self.0.index(index): the position it refers to, or a panic when out of
\* bounds (index is a usize: there is no negative index).
index(v, i) == IF i < Len(v) THEN Some(i) ELSE Panic

\* Faulty variant: a valid index is ignored and the first position returned.
index_mut_first(v, i) == IF i < Len(v) THEN Some(0) ELSE Panic

\* self.0.index_mut(index)
index_mut(v, i) == IF i < Len(v) THEN Some(i) ELSE Panic

\* The value a reference to position p of v reads.
deref(v, p) == v[p + 1]

\* Assignment through a mutable reference to position p of v.
store(v, p, x) == [v EXCEPT ![p + 1] = x]

\* index-read(i) as a value: the element, or a panic.
index_read(v, i) ==
  LET r == index(v, i) IN IF r.tag = "Some" THEN Some(deref(v, r.val)) ELSE Panic

\* index-write(i, x) as a value: the collection afterwards (v[i] = x).
index_write(v, i, x) ==
  LET r == index_mut(v, i) IN IF r.tag = "Some" THEN store(v, r.val, x) ELSE v

\* Faulty variant: the traversal runs from the back.
iter_next_back(v, pos) ==
  IF pos < Len(v) THEN [out |-> Some(Len(v) - 1 - pos), pos |-> pos + 1]
  ELSE [out |-> None, pos |-> pos]

\* slice::Iter::next over the borrowed buffer v with the cursor at pos:
\* the position yielded (or None) and the cursor afterwards.
iter_next(v, pos) ==
  IF pos < Len(v) THEN [out |-> Some(pos), pos |-> pos + 1]
  ELSE [out |-> None, pos |-> pos]

\* Faulty variant: the traversal runs from the back.
iter_mut_next_back(v, pos) ==
  IF pos < Len(v) THEN [out |-> Some(Len(v) - 1 - pos), pos |-> pos + 1]
  ELSE [out |-> None, pos |-> pos]

\* Faulty variant: the first position is skipped.
iter_mut_next_skip(v, pos) ==
  IF pos + 1 < Len(v) THEN [out |-> Some(pos + 1), pos |-> pos + 1]
  ELSE [out |-> None, pos |-> pos]

\* slice::IterMut::next
iter_mut_next(v, pos) ==
  IF pos < Len(v) THEN [out |-> Some(pos), pos |-> pos + 1]
  ELSE [out |-> None, pos |-> pos]

\* Faulty variant: the elements are taken from the back.
into_iter_next_back(rest) ==
  IF rest = <<>> THEN [out |-> None, rest |-> rest]
  ELSE [out |-> Some(rest[Len(rest)]), rest |-> SubSeq(rest, 1, Len(rest) - 1)]

\* vec::IntoIter::next over the elements it still owns.
into_iter_next(rest) ==
  IF rest = <<>> THEN [out |-> None, rest |-> rest]
  ELSE [out |-> Some(Head(rest)), rest |-> Tail(rest)]

\* derive(PartialEq) on the tuple struct: Vec's ==, which is the slices' ==:
\* unequal lengths are unequal, otherwise the first unequal pair decides.
RECURSIVE slice_eq(_, _)
slice_eq(a, b) ==
  IF a = <<>> THEN TRUE
  ELSE IF Head(a) # Head(b) THEN FALSE
  ELSE slice_eq(Tail(a), Tail(b))

\* Faulty variant: the elements are compared without their order.
eq_unordered(a, b) ==
  /\ Len(a) = Len(b)
  /\ \A g \in Geometry :
       Cardinality({k \in 1 .. Len(a) : a[k] = g}) = Cardinality({k \in 1 .. Len(b) : b[k] = g})

eq(a, b) == IF Len(a) # Len(b) THEN FALSE ELSE slice_eq(a, b)

\* ------------------------------------------------------------------ state
VARIABLES
  gc,       \* self.0 of the collection: the Vec's elements
  moved,    \* the collection was consumed by into_iter(self)
  halted,   \* an out-of-bounds index panicked
  readers,  \* the IterHelper values that borrow the collection
  writer,   \* the IterMutHelper value that borrows it mutably
  mutRef,   \* the &mut Geometry that index_mut returned: its position, or None
  owned,    \* the IntoIteratorHelper value that owns the elements
  rhs,      \* the other collection of a comparison
  last      \* the last call and what it returned

vars == <<gc, moved, halted, readers, writer, mutRef, owned, rhs, last>>

NoReader == [live |-> FALSE, pos |-> 0, snap |-> <<>>, seen |-> <<>>, done |-> FALSE]
NoWriter ==
  [live |-> FALSE, pos |-> 0, yielded |-> <<>>, done |-> FALSE,
   len0 |-> 0, shadow |-> <<>>, assigned |-> {}]
NoOwned == [live |-> FALSE, rest |-> <<>>, orig |-> <<>>, out |-> <<>>, done |-> FALSE]

\* ---------------------------------------------------------- borrow rules
SharedLive == \E r \in Readers : readers[r].live
ExclLive == writer.live \/ mutRef # None

\* &self / &'a self: the collection is there and not mutably borrowed.
CanBorrow == ~moved /\ ~ExclLive

\* &mut self / &'a mut self: the collection is there and not borrowed at all.
CanBorrowMut == ~moved /\ ~ExclLive /\ ~SharedLive

\* self by value: the collection is there and not borrowed at all.
CanMove == ~moved /\ ~ExclLive /\ ~SharedLive

\* A new value may take the collection's place when nothing refers to the old.
CanReplace == ~ExclLive /\ ~SharedLive /\ ~owned.live

Init ==
  /\ gc = new
  /\ moved = FALSE
  /\ halted = FALSE
  /\ readers = [r \in Readers |-> NoReader]
  /\ writer = NoWriter
  /\ mutRef = None
  /\ owned = NoOwned
  /\ rhs = <<>>
  /\ last = [op |-> "new"]

\* ------------------------------------------------------------ constructors
New ==
  /\ ~halted /\ CanReplace
  /\ gc' = new
  /\ moved' = FALSE
  /\ last' = [op |-> "new"]
  /\ UNCHANGED <<halted, readers, writer, mutRef, owned, rhs>>

From ==
  /\ ~halted /\ CanReplace
  /\ \E ig \in ItemTypes : \E x \in Items(ig) :
       /\ gc' = from(ig, x)
       /\ last' = [op |-> "from", ig |-> ig, x |-> x]
  /\ moved' = FALSE
  /\ UNCHANGED <<halted, readers, writer, mutRef, owned, rhs>>

FromIter ==
  /\ ~halted /\ CanReplace
  /\ \E ig \in ItemTypes : \E S \in SeqsUpTo(Items(ig), MaxLen) :
       /\ gc' = from_iter(ig, S)
       /\ last' = [op |-> "from_iter", ig |-> ig, S |-> S]
  /\ moved' = FALSE
  /\ UNCHANGED <<halted, readers, writer, mutRef, owned, rhs>>

\* ----------------------------------------------------------------- queries
CallLen ==
  /\ ~halted /\ CanBorrow
  /\ last' = [op |-> "len", n |-> len(gc)]
  /\ UNCHANGED <<gc, moved, halted, readers, writer, mutRef, owned, rhs>>

CallIsEmpty ==
  /\ ~halted /\ CanBorrow
  /\ last' = [op |-> "is_empty", b |-> is_empty(gc)]
  /\ UNCHANGED <<gc, moved, halted, readers, writer, mutRef, owned, rhs>>

\* gc == rhs
CallEq ==
  /\ ~halted /\ CanBorrow
  /\ last' = [op |-> "eq", b |-> eq(gc, rhs)]
  /\ UNCHANGED <<gc, moved, halted, readers, writer, mutRef, owned, rhs>>

\* ---------------------------------------------------------------- indexing
\* gc[i] read: the element, or the panic of an out-of-bounds index.
Index ==
  /\ ~halted /\ CanBorrow
  /\ \E i \in Positions :
       LET r == index(gc, i) IN
       /\ last' = [op |-> "index", i |-> i,
                   out |-> IF r.tag = "Some" THEN Some(deref(gc, r.val)) ELSE Panic]
       /\ halted' = (r.tag = "Panic")
  /\ UNCHANGED <<gc, moved, readers, writer, mutRef, owned, rhs>>

\* &mut gc[i]: the mutable reference, or the panic.
IndexMut ==
  /\ ~halted /\ CanBorrowMut
  /\ \E i \in Positions :
       LET r == index_mut(gc, i) IN
       /\ last' = [op |-> "index_mut", i |-> i, out |-> r]
       /\ halted' = (r.tag = "Panic")
       /\ mutRef' = IF r.tag = "Some" THEN r ELSE None
  /\ UNCHANGED <<gc, moved, readers, writer, owned, rhs>>

\* *r = x through the reference index_mut returned, which ends with it.
AssignIndexed ==
  /\ ~halted /\ mutRef # None
  /\ \E x \in Geometry :
       /\ gc' = store(gc, mutRef.val, x)
       /\ last' = [op |-> "assign_indexed", i |-> last.i, p |-> mutRef.val, x |-> x]
  /\ mutRef' = None
  /\ UNCHANGED <<moved, halted, readers, writer, owned, rhs>>

\* ------------------------------------------------------ borrowed iteration
\* gc.iter() / (&gc).into_iter(): IterHelper { iter: self.0.iter() }
Iter(r) ==
  /\ ~halted /\ CanBorrow /\ ~readers[r].live
  /\ readers' = [readers EXCEPT ![r] =
       [live |-> TRUE, pos |-> 0, snap |-> gc, seen |-> <<>>, done |-> FALSE]]
  /\ last' = [op |-> "iter", r |-> r]
  /\ UNCHANGED <<gc, moved, halted, writer, mutRef, owned, rhs>>

\* Faulty variant: one cursor is shared by every IterHelper.
IterNextShared(r) ==
  /\ ~halted /\ readers[r].live
  /\ LET n == iter_next(gc, readers[r].pos) IN
       /\ readers' = [q \in Readers |->
            IF readers[q].live
            THEN [readers[q] EXCEPT !.pos = n.pos,
                                    !.seen = IF q = r /\ n.out.tag = "Some"
                                             THEN Append(@, deref(gc, n.out.val)) ELSE @,
                                    !.done = IF q = r THEN n.out.tag = "None" ELSE @]
            ELSE readers[q]]
       /\ last' = [op |-> "iter_next", r |-> r,
                   out |-> IF n.out.tag = "Some" THEN Some(deref(gc, n.out.val)) ELSE None]
  /\ UNCHANGED <<gc, moved, halted, writer, mutRef, owned, rhs>>

\* IterHelper::next: self.iter.next()
IterNext(r) ==
  /\ ~halted /\ readers[r].live
  /\ LET n == iter_next(gc, readers[r].pos) IN
       /\ readers' = [readers EXCEPT ![r] =
            [@ EXCEPT !.pos = n.pos,
                      !.seen = IF n.out.tag = "Some"
                               THEN Append(@, deref(gc, n.out.val)) ELSE @,
                      !.done = (n.out.tag = "None")]]
       /\ last' = [op |-> "iter_next", r |-> r,
                   out |-> IF n.out.tag = "Some" THEN Some(deref(gc, n.out.val)) ELSE None]
  /\ UNCHANGED <<gc, moved, halted, writer, mutRef, owned, rhs>>

\* The IterHelper goes out of scope and its borrow ends.
IterDrop(r) ==
  /\ ~halted /\ readers[r].live
  /\ readers' = [readers EXCEPT ![r] = NoReader]
  /\ last' = [op |-> "iter_drop", r |-> r]
  /\ UNCHANGED <<gc, moved, halted, writer, mutRef, owned, rhs>>

\* ------------------------------------------------------- mutable iteration
\* gc.iter_mut() / (&mut gc).into_iter(): IterMutHelper { iter: self.0.iter_mut() }
IterMut ==
  /\ ~halted /\ CanBorrowMut
  /\ writer' = [live |-> TRUE, pos |-> 0, yielded |-> <<>>, done |-> FALSE,
                len0 |-> len(gc), shadow |-> gc, assigned |-> {}]
  /\ last' = [op |-> "iter_mut"]
  /\ UNCHANGED <<gc, moved, halted, readers, mutRef, owned, rhs>>

\* IterMutHelper::next: self.iter.next(); the reference yielded stays usable.
IterMutNext ==
  /\ ~halted /\ writer.live
  /\ LET n == iter_mut_next(gc, writer.pos) IN
       /\ writer' = [writer EXCEPT !.pos = n.pos,
                                   !.yielded = IF n.out.tag = "Some"
                                               THEN Append(@, n.out.val) ELSE @,
                                   !.done = (n.out.tag = "None")]
       /\ last' = [op |-> "iter_mut_next", out |-> n.out]
  /\ UNCHANGED <<gc, moved, halted, readers, mutRef, owned, rhs>>

\* *geom = x through the k-th reference the mutable iteration yielded. shadow
\* is the collection of iter_mut's call with the index-write at position k
\* made for each such assignment; assigned holds the k assigned so far.
AssignYielded ==
  /\ ~halted /\ writer.live
  /\ \E k \in 0 .. (Len(writer.yielded) - 1) : \E x \in Geometry :
       /\ gc' = store(gc, writer.yielded[k + 1], x)
       /\ writer' = [writer EXCEPT !.shadow = index_write(@, k, x),
                                   !.assigned = @ \cup {k}]
       /\ last' = [op |-> "assign_yielded", k |-> k, x |-> x]
  /\ UNCHANGED <<moved, halted, readers, mutRef, owned, rhs>>

\* The IterMutHelper and the references it yielded go out of scope.
IterMutDrop ==
  /\ ~halted /\ writer.live
  /\ writer' = NoWriter
  /\ last' = [op |-> "iter_mut_drop"]
  /\ UNCHANGED <<gc, moved, halted, readers, mutRef, owned, rhs>>

\* --------------------------------------------------------- owned iteration
\* gc.into_iter(): IntoIteratorHelper { iter: self.0.into_iter() }, consuming gc.
IntoIter ==
  /\ ~halted /\ CanMove
  /\ owned' = [live |-> TRUE, rest |-> gc, orig |-> gc, out |-> <<>>, done |-> FALSE]
  /\ gc' = <<>>
  /\ moved' = TRUE
  /\ last' = [op |-> "into_iter"]
  /\ UNCHANGED <<halted, readers, writer, mutRef, rhs>>

\* IntoIteratorHelper::next: self.iter.next()
IntoIterNext ==
  /\ ~halted /\ owned.live
  /\ LET n == into_iter_next(owned.rest) IN
       /\ owned' = [owned EXCEPT !.rest = n.rest,
                                 !.out = IF n.out.tag = "Some"
                                         THEN Append(@, n.out.val) ELSE @,
                                 !.done = (n.out.tag = "None")]
       /\ last' = [op |-> "into_iter_next", out |-> n.out]
  /\ UNCHANGED <<gc, moved, halted, readers, writer, mutRef, rhs>>

\* The IntoIteratorHelper goes out of scope with the elements it still owns.
IntoIterDrop ==
  /\ ~halted /\ owned.live
  /\ owned' = NoOwned
  /\ last' = [op |-> "into_iter_drop"]
  /\ UNCHANGED <<gc, moved, halted, readers, writer, mutRef, rhs>>

\* ------------------------------------------------------------ specification
Next ==
  \/ New
  \/ From
  \/ FromIter
  \/ CallLen
  \/ CallIsEmpty
  \/ Index
  \/ IndexMut
  \/ AssignIndexed
  \/ \E r \in Readers : Iter(r)
  \/ \E r \in Readers : IterNext(r)
  \/ \E r \in Readers : IterDrop(r)
  \/ IterMut
  \/ IterMutNext
  \/ AssignYielded
  \/ IterMutDrop
  \/ IntoIter
  \/ IntoIterNext
  \/ IntoIterDrop

Spec == Init /\ [][Next]_vars

\* Equality of two collections: the inputs are drawn, == is applied.
InitEq ==
  /\ gc \in Collections
  /\ moved = FALSE
  /\ halted = FALSE
  /\ readers = [r \in Readers |-> NoReader]
  /\ writer = NoWriter
  /\ mutRef = None
  /\ owned = NoOwned
  /\ rhs \in Collections
  /\ last = [op |-> "from_iter", ig |-> "Geometry", S |-> gc]

NextEq == CallEq

SpecEq == InitEq /\ [][NextEq]_vars

\* ------------------------------------------------------------- properties
IsPrefix(a, b) == Len(a) <= Len(b) /\ a = SubSeq(b, 1, Len(a))

IsPermutation(a, b) ==
  /\ Len(a) = Len(b)
  /\ \A g \in Geometry :
       Cardinality({k \in 1 .. Len(a) : a[k] = g}) = Cardinality({k \in 1 .. Len(b) : b[k] = g})

ElementWiseEqual(a, b) == Len(a) = Len(b) /\ \A k \in 1 .. Len(a) : a[k] = b[k]

\* C1: the collection from_iter builds from the items S has count(S) elements,
\* and reading position k gives the converted k-th item of S, for every k:
\* nothing is dropped, duplicated or reordered.
C1_FromIterKeepsCountAndOrder ==
  last.op = "from_iter" =>
    /\ len(gc) = Len(last.S)
    /\ \A k \in 0 .. (Len(last.S) - 1) :
         index_read(gc, k) = Some(into(last.ig, last.S[k + 1]))

C1_Witness ==
  /\ last.op = "from_iter"
  /\ last.ig = "Point"
  /\ Len(last.S) >= 3
  /\ last.S[1] # last.S[2]
  /\ gc[1] # gc[2]

\* C2: an index read or an index_mut at a position at or past the length
\* panics: the program halts and takes no further step, no element or
\* reference is returned, the index is neither wrapped nor clamped, and the
\* collection is as it was. On an empty collection every index does so.
C2_OutOfBoundsHalts ==
  /\ [][(last'.op \in {"index", "index_mut"} /\ last'.i >= len(gc)) =>
          (halted' /\ last'.out = Panic /\ gc' = gc /\ mutRef' = None)]_vars
  /\ [][~halted]_vars

C2_Witness ==
  /\ halted
  /\ last.op = "index_mut"
  /\ last.i = len(gc)
  /\ len(gc) > 0
  /\ mutRef = None

\* C3: after the assignment through index_mut(i) of a value x at a valid i,
\* reading position i gives x and the length is what it was.
C3_IndexWriteThenRead ==
  [][last'.op = "assign_indexed" =>
       (index_read(gc', last'.i) = Some(last'.x) /\ len(gc') = len(gc))]_vars

C3_Witness ==
  /\ last.op = "assign_indexed"
  /\ last.i = 2
  /\ index_read(gc, 2) = Some(last.x)
  /\ index_read(gc, 0) # Some(last.x)

\* C4: a borrowed iteration yields the elements at positions 0, 1, ... in that
\* order, yields None only after len() of them, starts at position 0 on each
\* call of iter, and no step of it changes the collection.
C4_BorrowedIteration ==
  /\ [](\A r \in Readers : readers[r].live =>
          /\ gc = readers[r].snap
          /\ readers[r].pos = Len(readers[r].seen)
          /\ IsPrefix(readers[r].seen, gc)
          /\ (readers[r].done => readers[r].seen = gc))
  /\ [](last.op = "iter" => readers[last.r].seen = <<>> /\ readers[last.r].pos = 0)
  /\ [](last.op = "iter_next" =>
          /\ last.out.tag = "Some" =>
               /\ readers[last.r].seen # <<>>
               /\ last.out.val = deref(gc, Len(readers[last.r].seen) - 1)
          /\ last.out.tag = "None" => Len(readers[last.r].seen) = len(gc))
  /\ [][last'.op \in {"iter", "iter_next", "iter_drop"} => (gc' = gc /\ moved' = moved)]_vars

C4_Witness ==
  /\ last.op = "iter_next"
  /\ last.out = None
  /\ len(gc) >= 3
  /\ gc[1] # gc[2]
  /\ readers[last.r].seen = gc

\* C5: while a mutable iteration is live the collection is the one that the
\* index-writes at the same positions make of the collection iter_mut was
\* called on (the k-th reference yielded stands for position k), its length is
\* unchanged, and the positions are yielded once each, in order, None coming
\* after len() of them.
C5_MutableIterationAsIndexWrites ==
  writer.live =>
    /\ gc = writer.shadow
    /\ len(gc) = writer.len0
    /\ writer.yielded = [k \in 1 .. writer.pos |-> k - 1]
    /\ writer.pos <= len(gc)
    /\ (writer.done => writer.pos = len(gc))

C5_Witness ==
  /\ writer.live
  /\ writer.done
  /\ len(gc) >= 3
  /\ writer.assigned = 0 .. (len(gc) - 1)
  /\ gc[1] # gc[2]
  /\ gc[2] # gc[3]

\* C6: an owned iteration yields the elements of the consumed collection in
\* order, each once; None comes after all of them and at every later step; the
\* collection is gone while the iteration lives.
C6_OwnedIteration ==
  owned.live =>
    /\ moved
    /\ owned.out \o owned.rest = owned.orig
    /\ (owned.done => owned.out = owned.orig)
    /\ (last.op = "into_iter_next" /\ last.out.tag = "Some") =>
         (owned.out # <<>> /\ last.out.val = owned.orig[Len(owned.out)])
    /\ (last.op = "into_iter_next" /\ last.out.tag = "None") =>
         Len(owned.out) = Len(owned.orig)

C6_Witness ==
  /\ owned.live
  /\ owned.done
  /\ Len(owned.orig) >= 3
  /\ owned.orig[1] # owned.orig[3]
  /\ owned.out = owned.orig
  /\ last.op = "into_iter_next"

\* C7: gc == rhs is true exactly when the two have the same length and equal
\* elements at every position; two collections with the same elements in an
\* order that differs at some position are unequal.
C7_StructuralEquality ==
  last.op = "eq" =>
    /\ last.b <=> ElementWiseEqual(gc, rhs)
    /\ (IsPermutation(gc, rhs) /\ \E k \in 1 .. Len(gc) : gc[k] # rhs[k]) => ~last.b

C7_Witness ==
  /\ last.op = "eq"
  /\ ~last.b
  /\ Len(gc) >= 3
  /\ IsPermutation(gc, rhs)
  /\ gc[1] = rhs[1]
  /\ gc[2] # rhs[2]

\* C8: new has length 0 and is empty; is_empty returns exactly len() = 0
\* whatever the collection has been through; len and is_empty change nothing.
C8_EmptyAndLength ==
  /\ [](last.op = "new" => (len(gc) = 0 /\ is_empty(gc)))
  /\ [](~moved => (is_empty(gc) <=> len(gc) = 0))
  /\ [](last.op = "is_empty" => (last.b <=> len(gc) = 0))
  /\ [](last.op = "len" => last.n = Len(gc))
  /\ [][last'.op \in {"len", "is_empty"} =>
          UNCHANGED <<gc, moved, halted, readers, writer, mutRef, owned, rhs>>]_vars

C8_Witness ==
  /\ last.op = "is_empty"
  /\ ~last.b
  /\ len(gc) > 0
  /\ \E r \in Readers : readers[r].live

\* C9: borrowed iterations of one collection advance independently (a step of
\* one leaves the others and the collection as they were, and each yields the
\* whole of the collection in order), and a mutable iteration or an index_mut
\* reference is never live together with a reader or another writer.
C9_SharedOrExclusive ==
  /\ [][last'.op = "iter_next" =>
          /\ \A q \in Readers \ {last'.r} : readers'[q] = readers[q]
          /\ gc' = gc]_vars
  /\ [](\A r \in Readers : readers[r].live =>
          /\ readers[r].seen = SubSeq(gc, 1, readers[r].pos)
          /\ (readers[r].done => readers[r].pos = len(gc)))
  /\ [](ExclLive => (~SharedLive /\ ~(writer.live /\ mutRef # None)))

C9_Witness ==
  /\ len(gc) >= 2
  /\ readers[1].live /\ readers[1].done /\ readers[1].seen = gc
  /\ readers[2].live /\ readers[2].pos = 1 /\ readers[2].seen = <<gc[1]>>

\* C10: an assignment through index_mut(i), or through the k-th reference of a
\* mutable iteration, changes the element at that position alone: every other
\* position reads as before and the length is what it was.
C10_MutationFrame ==
  /\ [][last'.op = "assign_indexed" =>
          /\ len(gc') = len(gc)
          /\ \A j \in (0 .. (len(gc) - 1)) \ {last'.i} :
               index_read(gc', j) = index_read(gc, j)]_vars
  /\ [][last'.op = "assign_yielded" =>
          /\ len(gc') = len(gc)
          /\ \A j \in (0 .. (len(gc) - 1)) \ {last'.k} :
               index_read(gc', j) = index_read(gc, j)]_vars

C10_Witness ==
  /\ last.op = "assign_yielded"
  /\ last.k = 1
  /\ len(gc) >= 3
  /\ gc[2] = last.x
  /\ gc[1] # last.x
  /\ gc[3] # last.x

====
